---------------------------- MODULE Spec2Model ----------------------------
(***************************************************************************)
(* Model of the money-muling analysis engine (analyzeTransactions and its  *)
(* detectors).  Strings are sequences of UTF-16 code units, timestamps are *)
(* milliseconds, JS Sets/Maps are sequences in insertion order.            *)
(*                                                                         *)
(* A loop whose iterations do not depend on one another is written with    *)
(* FlatMap: the results of the iterations, concatenated in loop order.     *)
(***************************************************************************)
EXTENDS Integers, Sequences, FiniteSets, TLC

VARIABLES transactions, pc, cycles, smurfing, shells, legit, hitIdx,
          ringCounter, fraudRings, acctRings, acctPatterns,
          suspiciousAccounts, result,
          work    \* the position of the detectors when they are followed step by step

vars == <<transactions, pc, cycles, smurfing, shells, legit, hitIdx,
          ringCounter, fraudRings, acctRings, acctPatterns,
          suspiciousAccounts, result, work>>

\* ---------------------------------------------------------------- sequences and strings
Range(s) == {s[i] : i \in 1..Len(s)}

Min2(a, b) == IF a <= b THEN a ELSE b

\* F(lo) \o F(lo + 1) \o ... \o F(hi)
RECURSIVE FlatMap(_, _, _)
FlatMap(F(_), lo, hi) ==
  IF lo > hi THEN <<>>
  ELSE IF lo = hi THEN F(lo)
  ELSE LET mid == (lo + hi) \div 2
       IN FlatMap(F, lo, mid) \o FlatMap(F, mid + 1, hi)

\* F(lo) + F(lo + 1) + ... + F(hi)
RECURSIVE SumOver(_, _, _)
SumOver(F(_), lo, hi) ==
  IF lo > hi THEN 0
  ELSE IF lo = hi THEN F(lo)
  ELSE LET mid == (lo + hi) \div 2
       IN SumOver(F, lo, mid) + SumOver(F, mid + 1, hi)

\* JS `a < b` on strings: lexicographic by code unit, a proper prefix is smaller
RECURSIVE StrLess(_, _)
StrLess(a, b) ==
  IF b = <<>> THEN FALSE
  ELSE IF a = <<>> THEN TRUE
  ELSE IF a[1] # b[1] THEN a[1] < b[1]
  ELSE StrLess(Tail(a), Tail(b))

\* String(n) for a non-negative integer: its decimal digits, '0' = 48
RECURSIVE DecStr(_)
DecStr(n) == IF n < 10 THEN <<48 + n>> ELSE Append(DecStr(n \div 10), 48 + (n % 10))

\* s.padStart(width, ch)
RECURSIVE PadStart(_, _, _)
PadStart(s, width, ch) == IF Len(s) >= width THEN s ELSE PadStart(<<ch>> \o s, width, ch)

\* parts.join(sep), sep a one-code-unit string
Join(parts, sep) ==
  FlatMap(LAMBDA i : IF i = 1 THEN parts[i] ELSE <<sep>> \o parts[i], 1, Len(parts))

\* [...new Set(seq)]: first occurrences, in order
Uniq(s) ==
  FlatMap(LAMBDA i : IF \E j \in 1..(i - 1) : s[j] = s[i] THEN <<>> ELSE <<s[i]>>, 1, Len(s))

\* arr.map(f) for the projections the code uses
Senders(txs)   == [i \in 1..Len(txs) |-> txs[i].sender_id]
Receivers(txs) == [i \in 1..Len(txs) |-> txs[i].receiver_id]

\* ---------------------------------------------------------------- graph
\* allNodes: sender then receiver of every transfer, in insertion order
AllNodes(txs) ==
  Uniq([i \in 1..(2 * Len(txs)) |->
          IF i % 2 = 1 THEN txs[(i + 1) \div 2].sender_id ELSE txs[i \div 2].receiver_id])

OutTxs(txs, id) == SelectSeq(txs, LAMBDA t : t.sender_id = id)
InTxs(txs, id)  == SelectSeq(txs, LAMBDA t : t.receiver_id = id)

\* adjList[id] || [] : the targets of id's outgoing edges, in transfer order
AdjList(txs) == [id \in Range(AllNodes(txs)) |-> Receivers(OutTxs(txs, id))]

SumAmount(txs) == SumOver(LAMBDA i : txs[i].amount, 1, Len(txs))

NodeStats(txs) ==
  [id \in Range(AllNodes(txs)) |->
     [inDegree          |-> Len(InTxs(txs, id)),
      outDegree         |-> Len(OutTxs(txs, id)),
      totalAmountIn     |-> SumAmount(InTxs(txs, id)),
      totalAmountOut    |-> SumAmount(OutTxs(txs, id)),
      totalTransactions |-> Len(InTxs(txs, id)) + Len(OutTxs(txs, id))]]

\* ---------------------------------------------------------------- cycles
MIN_LEN == 3
MAX_LEN == 5
SEP_BAR == 124

\* dfs(current, depth) with the path so far: the paths it pushes to allCycles, in
\* order.  inPath is the set of the path's accounts; depth is Len(path) - 1.
RECURSIVE Dfs(_, _, _, _, _, _, _)
Dfs(adj, start, processed, path, depth, minLen, maxLen) ==
  LET edges == adj[path[Len(path)]]
      Visit(i) ==
        IF edges[i] = start /\ depth + 1 >= minLen /\ depth + 1 <= maxLen
          THEN <<path>>
        ELSE IF edges[i] \notin Range(path) /\ edges[i] \notin processed
                /\ depth + 1 < maxLen
          THEN Dfs(adj, start, processed, Append(path, edges[i]), depth + 1, minLen, maxLen)
        ELSE <<>>
  IN FlatMap(Visit, 1, Len(edges))

\* the loop over start nodes; the nodes before the k-th are processed by then
RawCycles(adj, nodes, minLen, maxLen) ==
  FlatMap(LAMBDA k : Dfs(adj, nodes[k], {nodes[j] : j \in 1..(k - 1)}, <<nodes[k]>>, 0,
                         minLen, maxLen),
          1, Len(nodes))

\* cycle.reduce((m, id) => (id < m ? id : m), cycle[0])
RECURSIVE MinId(_, _)
MinId(cycle, m) ==
  IF cycle = <<>> THEN m
  ELSE MinId(Tail(cycle), IF StrLess(cycle[1], m) THEN cycle[1] ELSE m)

IndexOf(s, x) == CHOOSE i \in 1..Len(s) : s[i] = x /\ \A j \in 1..(i - 1) : s[j] # x

\* a variant that keeps each cycle as the search found it
NormalizeNone(cycle) == cycle

\* lines 176-178: the cycle rotated to begin at its smallest account
Normalize(cycle) ==
  LET idx == IndexOf(cycle, MinId(cycle, cycle[1]))
  IN SubSeq(cycle, idx, Len(cycle)) \o SubSeq(cycle, 1, idx - 1)

\* the dedupe loop: a cycle is kept unless an earlier one has the same key
Dedupe(all) ==
  LET keys == [i \in 1..Len(all) |-> Join(Normalize(all[i]), SEP_BAR)]
  IN FlatMap(LAMBDA i : IF \E j \in 1..(i - 1) : keys[j] = keys[i] THEN <<>>
                        ELSE <<Normalize(all[i])>>,
             1, Len(all))

\* a variant that stops the search one account early (depth + 1 < maxLen - 1)
FindCyclesShort(adj, nodes, minLen, maxLen) ==
  Dedupe(RawCycles(adj, nodes, minLen, maxLen - 1))

\* a variant whose length bounds are off by two below and by one above
FindCyclesWide(adj, nodes, minLen, maxLen) ==
  Dedupe(RawCycles(adj, nodes, minLen - 2, maxLen + 1))

FindCycles(adj, nodes, minLen, maxLen) == Dedupe(RawCycles(adj, nodes, minLen, maxLen))

\* ---------------------------------------------------------------- smurfing
WINDOW_MS == 72 * 3600000
FAN_MIN == 10

\* arr.sort((a, b) => a.timestamp - b.timestamp): stable, ascending.  The k-th
\* element is the one with k - 1 elements before it in (timestamp, position) order.
SortByTs(txs) ==
  LET Before(i, j) == txs[i].timestamp < txs[j].timestamp
                        \/ (txs[i].timestamp = txs[j].timestamp /\ i < j)
  IN [k \in 1..Len(txs) |->
        txs[CHOOSE j \in 1..Len(txs) :
              Cardinality({i \in 1..Len(txs) : Before(i, j)}) = k - 1]]

\* a variant whose window is open at its end
WindowTxsOpen(sorted, i) ==
  LET windowEnd == sorted[i].timestamp + WINDOW_MS
  IN SelectSeq(sorted, LAMBDA t : t.timestamp >= sorted[i].timestamp
                                  /\ t.timestamp < windowEnd)

\* sorted.filter(t => t.timestamp >= sorted[i].timestamp && t.timestamp <= windowEnd)
WindowTxs(sorted, i) ==
  LET windowEnd == sorted[i].timestamp + WINDOW_MS
  IN SelectSeq(sorted, LAMBDA t : t.timestamp >= sorted[i].timestamp
                                  /\ t.timestamp <= windowEnd)

\* the anchor loop of one receiver: the hit of the first window that qualifies
FanInScan(recv, sorted) ==
  LET Qualifies(i) == Len(Uniq(Senders(WindowTxs(sorted, i)))) >= FAN_MIN
  IN IF \E i \in 1..Len(sorted) : Qualifies(i)
       THEN LET first == CHOOSE i \in 1..Len(sorted) :
                           Qualifies(i) /\ \A h \in 1..(i - 1) : ~Qualifies(h)
            IN <<[type |-> "fan_in",
                  accounts |-> <<recv>> \o Uniq(Senders(WindowTxs(sorted, first)))]>>
       ELSE <<>>

FanOutScan(sender, sorted) ==
  LET Qualifies(i) == Len(Uniq(Receivers(WindowTxs(sorted, i)))) >= FAN_MIN
  IN IF \E i \in 1..Len(sorted) : Qualifies(i)
       THEN LET first == CHOOSE i \in 1..Len(sorted) :
                           Qualifies(i) /\ \A h \in 1..(i - 1) : ~Qualifies(h)
            IN <<[type |-> "fan_out",
                  accounts |-> <<sender>> \o Uniq(Receivers(WindowTxs(sorted, first)))]>>
       ELSE <<>>

\* byReceiver / bySender are Maps: keys in order of first appearance
DetectSmurfing(txs) ==
  LET recvs == Uniq(Receivers(txs))
      sends == Uniq(Senders(txs))
  IN FlatMap(LAMBDA k : FanInScan(recvs[k], SortByTs(InTxs(txs, recvs[k]))), 1, Len(recvs))
     \o FlatMap(LAMBDA k : FanOutScan(sends[k], SortByTs(OutTxs(txs, sends[k]))), 1, Len(sends))

\* ---------------------------------------------------------------- shell networks
SHELL_MAX_TX == 3
CHAIN_CAP == 8
CHAIN_MIN == 4
SEP_ARROW == 8594

\* a variant that takes the first unvisited successor, whatever its activity
FindShellFirst(nextEdges, stats) == IF Len(nextEdges) > 0 THEN 1 ELSE 0

\* nextEdges.find(e => stats(e.target).totalTransactions <= 3): its index, 0 if none
FindShell(nextEdges, stats) ==
  IF \E j \in 1..Len(nextEdges) : stats[nextEdges[j]].totalTransactions <= SHELL_MAX_TX
    THEN CHOOSE j \in 1..Len(nextEdges) :
           /\ stats[nextEdges[j]].totalTransactions <= SHELL_MAX_TX
           /\ \A h \in 1..(j - 1) : stats[nextEdges[h]].totalTransactions > SHELL_MAX_TX
    ELSE 0

\* the while loop: visited is the chain built so far, current its last account
RECURSIVE ExtendChain(_, _, _)
ExtendChain(adj, stats, chain) ==
  IF ~(Len(chain) < CHAIN_CAP) THEN chain
  ELSE LET nextEdges == SelectSeq(adj[chain[Len(chain)]], LAMBDA e : e \notin Range(chain))
           nextShell == FindShell(nextEdges, stats)
       IN IF nextShell # 0
            THEN ExtendChain(adj, stats, Append(chain, nextEdges[nextShell]))
            ELSE IF Len(nextEdges) > 0 THEN Append(chain, nextEdges[1]) ELSE chain

\* a variant that keeps chains two accounts shorter
LongEnoughTwo(chain) == Len(chain) >= CHAIN_MIN - 2

\* line 264: if (chain.length >= 4)
LongEnough(chain) == Len(chain) >= CHAIN_MIN

\* the loop over the edges of one start account: the chains that are long enough
ChainsFrom(adj, stats, start) ==
  FlatMap(LAMBDA i :
            IF stats[adj[start][i]].totalTransactions > SHELL_MAX_TX THEN <<>>
            ELSE LET chain == ExtendChain(adj, stats, <<start, adj[start][i]>>)
                 IN IF LongEnough(chain) THEN <<chain>> ELSE <<>>,
          1, Len(adj[start]))

RawChains(adj, stats, nodes) ==
  FlatMap(LAMBDA k : IF stats[nodes[k]].totalTransactions <= SHELL_MAX_TX THEN <<>>
                     ELSE ChainsFrom(adj, stats, nodes[k]),
          1, Len(nodes))

\* seen-set on chain.join('→'): a chain is kept unless an earlier one has its key
DedupeChains(all) ==
  LET keys == [i \in 1..Len(all) |-> Join(all[i], SEP_ARROW)]
  IN FlatMap(LAMBDA i : IF \E j \in 1..(i - 1) : keys[j] = keys[i] THEN <<>> ELSE <<all[i]>>,
             1, Len(all))

DetectShellNetworks(adj, stats, nodes) == DedupeChains(RawChains(adj, stats, nodes))

\* ---------------------------------------------------------------- false-positive filters
MERCHANT_MIN_IN == 20
MERCHANT_MIN_SENDERS == 15
MERCHANT_SPAN_H == 168
PAYROLL_MIN_OUT == 10
MS_PER_HOUR == 3600000

MaxTs(txs) == CHOOSE m \in {txs[i].timestamp : i \in 1..Len(txs)} :
                \A i \in 1..Len(txs) : txs[i].timestamp <= m
MinTs(txs) == CHOOSE m \in {txs[i].timestamp : i \in 1..Len(txs)} :
                \A i \in 1..Len(txs) : txs[i].timestamp >= m

\* (max - min) / 3_600_000 > 168, on integers
DetectMerchants(stats, txs) ==
  {id \in DOMAIN stats :
     /\ ~(stats[id].inDegree < MERCHANT_MIN_IN)
     /\ Len(Uniq(Senders(InTxs(txs, id)))) >= MERCHANT_MIN_SENDERS
     /\ MaxTs(InTxs(txs, id)) - MinTs(InTxs(txs, id)) > MERCHANT_SPAN_H * MS_PER_HOUR}

SumSquares(txs) == SumOver(LAMBDA i : txs[i].amount * txs[i].amount, 1, Len(txs))

\* a variant that divides by (mean || 1): a zero mean gives the ratio 0
CoefficientBelowOrOne(outgoing) ==
  LET n == Len(outgoing)
      S == SumAmount(outgoing)
      Q == SumSquares(outgoing)
  IN S = 0 \/ 400 * (n * Q - S * S) < 9 * S * S

\* sqrt(variance) / mean < 0.15 in exact arithmetic, with n transfers of sum S and
\* sum of squares Q: mean = S/n, variance = Q/n - (S/n)^2.  For S > 0 the test is
\* 400 * (n*Q - S*S) < 9 * S*S; for S = 0 the ratio is 0/0 = NaN and NaN < 0.15 is
\* false (amounts are >= 0, so S < 0 does not arise).
CoefficientBelow(outgoing) ==
  LET n == Len(outgoing)
      S == SumAmount(outgoing)
      Q == SumSquares(outgoing)
  IN S > 0 /\ 400 * (n * Q - S * S) < 9 * S * S

DetectPayroll(stats, txs) ==
  {id \in DOMAIN stats :
     /\ ~(stats[id].outDegree < PAYROLL_MIN_OUT)
     /\ CoefficientBelow(OutTxs(txs, id))}

\* ---------------------------------------------------------------- rings
SCORE_CAP == 100
CYCLE_BASE == 75
CYCLE_PER_NODE == 3
SMURF_BASE == 65
SHELL_BASE == 70
PER_MEMBER == 2
ID_WIDTH == 3

RING_PREFIX == <<82, 73, 78, 71, 95>>

\* a variant without the zero padding
RingIdBare(counter) == RING_PREFIX \o DecStr(counter)

\* `RING_${String(ringCounter).padStart(3, '0')}`
RingId(counter) == RING_PREFIX \o PadStart(DecStr(counter), ID_WIDTH, 48)

\* the arguments of the three addRing call sites
CycleHit(cycle) ==
  [members |-> cycle, patternType |-> "cycle",
   baseScore |-> CYCLE_BASE + Len(cycle) * CYCLE_PER_NODE,
   patternTag |-> <<"cycle_length_", Len(cycle)>>]
SmurfHit(p) ==
  [members |-> p.accounts, patternType |-> p.type, baseScore |-> SMURF_BASE,
   patternTag |-> <<p.type>>]
ShellHit(chain) ==
  [members |-> chain, patternType |-> "shell_network", baseScore |-> SHELL_BASE,
   patternTag |-> <<"shell_network">>]

\* the three for-loops, in order
Hits(cs, sm, sh) ==
  [i \in 1..Len(cs) |-> CycleHit(cs[i])] \o [i \in 1..Len(sm) |-> SmurfHit(sm[i])]
    \o [i \in 1..Len(sh) |-> ShellHit(sh[i])]

\* a variant that forgets the filter
FilteredNone(members, lg) == members

\* members.filter(id => !legit.has(id))
Filtered(members, lg) == SelectSeq(members, LAMBDA id : id \notin lg)

\* a variant that counts each member once
RiskScoreSingle(baseScore, n) == Min2(SCORE_CAP, baseScore + n)

\* Math.min(100, baseScore + filtered.length * 2)
RiskScore(baseScore, n) == Min2(SCORE_CAP, baseScore + n * PER_MEMBER)

\* a Map as a sequence of [key, val] entries in insertion order
MapHas(m, k) == \E i \in 1..Len(m) : m[i].key = k
MapGet(m, k) == m[CHOOSE i \in 1..Len(m) : m[i].key = k].val

\* acctRings after `for (const id of filtered)`: ringId is pushed to the list of
\* each member once per occurrence in filtered; new members are entered in order
PushRing(ar, filtered, ringId) ==
  LET Pushed(id) == [k \in 1..Cardinality({i \in 1..Len(filtered) : filtered[i] = id}) |-> ringId]
      fresh == Uniq(SelectSeq(filtered, LAMBDA id : ~MapHas(ar, id)))
  IN [i \in 1..Len(ar) |-> [key |-> ar[i].key, val |-> ar[i].val \o Pushed(ar[i].key)]]
     \o [i \in 1..Len(fresh) |-> [key |-> fresh[i], val |-> Pushed(fresh[i])]]

\* acctPatterns after the same loop: patternTag is added to each member's Set
AddTag(ap, filtered, tag) ==
  LET fresh == Uniq(SelectSeq(filtered, LAMBDA id : ~MapHas(ap, id)))
  IN [i \in 1..Len(ap) |->
        IF ap[i].key \in Range(filtered) /\ tag \notin Range(ap[i].val)
          THEN [key |-> ap[i].key, val |-> Append(ap[i].val, tag)]
          ELSE ap[i]]
     \o [i \in 1..Len(fresh) |-> [key |-> fresh[i], val |-> <<tag>>]]

\* ---------------------------------------------------------------- scoring
W_CYCLE == 35
W_FAN_IN == 25
W_FAN_OUT == 25
W_SHELL == 20
W_MULTI == 15
W_VELOCITY == 15
VELOCITY_SPAN_H == 24
VELOCITY_MIN_TX == 5

\* score.toFixed(1) of an integer score: its digits, then ".0"
ToFixed1(score) == DecStr(score) \o <<46, 48>>

\* parseFloat of such a string: the digits before the point (the fraction is 0)
RECURSIVE ParseDigits(_, _)
ParseDigits(s, acc) ==
  IF s = <<>> \/ s[1] < 48 \/ s[1] > 57 THEN acc
  ELSE ParseDigits(Tail(s), acc * 10 + (s[1] - 48))
ParseFloat(s) == ParseDigits(s, 0)

Touching(txs, id) == SelectSeq(txs, LAMBDA t : t.sender_id = id \/ t.receiver_id = id)

\* the velocity test of lines 99-104: all of the account's transfers lie within
\* 24 hours and there are more than 5 of them
HighVelocity(txs, id) ==
  LET touching == Touching(txs, id)
  IN /\ Len(touching) > 1
     /\ MaxTs(touching) - MinTs(touching) < VELOCITY_SPAN_H * MS_PER_HOUR
     /\ Len(touching) > VELOCITY_MIN_TX

PatternScore(patterns, ringIds) ==
    (IF \E i \in 1..Len(patterns) : patterns[i][1] = "cycle_length_" THEN W_CYCLE ELSE 0)
  + (IF <<"fan_in">> \in Range(patterns) THEN W_FAN_IN ELSE 0)
  + (IF <<"fan_out">> \in Range(patterns) THEN W_FAN_OUT ELSE 0)
  + (IF <<"shell_network">> \in Range(patterns) THEN W_SHELL ELSE 0)
  + (IF Len(ringIds) > 1 THEN W_MULTI ELSE 0)

\* a variant without the cap
ClampNone(score) == ParseFloat(ToFixed1(score))

\* Math.min(100, parseFloat(score.toFixed(1)))
Clamp(score) == Min2(SCORE_CAP, ParseFloat(ToFixed1(score)))

\* a variant that records the last ring of the account instead of the first
ScoreAccountLast(txs, id, ringIds, patterns) ==
  [account_id        |-> id,
   suspicion_score   |-> Clamp(PatternScore(patterns, ringIds)
                                 + (IF HighVelocity(txs, id) THEN W_VELOCITY ELSE 0)),
   detected_patterns |-> IF HighVelocity(txs, id) /\ <<"high_velocity">> \notin Range(patterns)
                           THEN Append(patterns, <<"high_velocity">>) ELSE patterns,
   ring_id           |-> ringIds[Len(ringIds)]]

\* lines 90-111: the entry pushed for one account of acctRings
ScoreAccount(txs, id, ringIds, patterns) ==
  LET fast  == HighVelocity(txs, id)
      score == PatternScore(patterns, ringIds) + (IF fast THEN W_VELOCITY ELSE 0)
  IN [account_id        |-> id,
      suspicion_score   |-> Clamp(score),
      detected_patterns |-> IF fast /\ <<"high_velocity">> \notin Range(patterns)
                              THEN Append(patterns, <<"high_velocity">>) ELSE patterns,
      ring_id           |-> ringIds[1]]

\* the loop over acctRings; legit accounts are skipped
ScoreAll(txs, ar, ap, lg) ==
  FlatMap(LAMBDA i :
            IF ar[i].key \in lg THEN <<>>
            ELSE <<ScoreAccount(txs, ar[i].key, ar[i].val,
                                IF MapHas(ap, ar[i].key) THEN MapGet(ap, ar[i].key) ELSE <<>>)>>,
          1, Len(ar))

\* a variant that leaves the entries in the order of the scoring loop
SortNone(accts) == accts

\* sort((a, b) => b.suspicion_score - a.suspicion_score): stable, descending.  The
\* k-th entry is the one with k - 1 entries before it in (score desc, position) order.
SortByScore(accts) ==
  LET Before(i, j) == accts[i].suspicion_score > accts[j].suspicion_score
                        \/ (accts[i].suspicion_score = accts[j].suspicion_score /\ i < j)
  IN [k \in 1..Len(accts) |->
        accts[CHOOSE j \in 1..Len(accts) :
                Cardinality({i \in 1..Len(accts) : Before(i, j)}) = k - 1]]

\* ---------------------------------------------------------------- result
GraphNodes(txs, ar, lg, sa) ==
  LET nodes == AllNodes(txs)
      stats == NodeStats(txs)
  IN [i \in 1..Len(nodes) |->
       LET id == nodes[i]
       IN [id               |-> id,
           suspicious       |-> MapHas(ar, id) /\ id \notin lg,
           suspicion_score  |-> IF \E j \in 1..Len(sa) : sa[j].account_id = id
                                  THEN sa[CHOOSE j \in 1..Len(sa) :
                                            /\ sa[j].account_id = id
                                            /\ \A h \in 1..(j - 1) : sa[h].account_id # id
                                         ].suspicion_score
                                  ELSE 0,
           ring_ids         |-> IF MapHas(ar, id) THEN MapGet(ar, id) ELSE <<>>,
           in_degree        |-> stats[id].inDegree,
           out_degree       |-> stats[id].outDegree,
           total_amount_in  |-> stats[id].totalAmountIn,
           total_amount_out |-> stats[id].totalAmountOut]]

GraphEdges(txs) ==
  [i \in 1..Len(txs) |->
     [source |-> txs[i].sender_id, target |-> txs[i].receiver_id, amount |-> txs[i].amount,
      transaction_id |-> txs[i].transaction_id, timestamp |-> txs[i].timestamp]]

\* elapsed wall-clock time is the environment's; tenths of a second
ElapsedTenths == {0, 1}

NoResult == [ready |-> FALSE]

\* the detectors are not being followed step by step
Idle ==
  [phase |-> "idle", k |-> 0, j |-> 0, path |-> <<>>, frames |-> <<>>, raw |-> <<>>,
   chain |-> <<>>, nodes |-> <<>>, adj |-> <<>>, stats |-> <<>>, keys |-> <<>>,
   sorted |-> <<>>]


\* ---------------------------------------------------------------- analyzeTransactions
AllHits == Hits(cycles, smurfing, shells)

\* lines 53-55: the three detectors, on the adjacency lists and statistics
DetectPatterns ==
  /\ pc = "detect"
  /\ cycles' = FindCycles(AdjList(transactions), AllNodes(transactions), MIN_LEN, MAX_LEN)
  /\ smurfing' = DetectSmurfing(transactions)
  /\ shells' = DetectShellNetworks(AdjList(transactions), NodeStats(transactions),
                                   AllNodes(transactions))
  /\ pc' = "filter"
  /\ UNCHANGED <<transactions, work, legit, hitIdx, ringCounter, fraudRings, acctRings,
                 acctPatterns, suspiciousAccounts, result>>

\* lines 58-60
FalsePositiveFilters ==
  /\ pc = "filter"
  /\ legit' = DetectMerchants(NodeStats(transactions), transactions)
                \cup DetectPayroll(NodeStats(transactions), transactions)
  /\ pc' = "rings"
  /\ UNCHANGED <<transactions, work, cycles, smurfing, shells, hitIdx, ringCounter, fraudRings,
                 acctRings, acctPatterns, suspiciousAccounts, result>>

\* a variant that lets a single surviving member through
TooFewOne(filtered) == Len(filtered) < 1

\* line 70: if (filtered.length < 2) return
TooFew(filtered) == Len(filtered) < 2

\* lines 68-84: addRing on the next hit of the three loops
AddRing ==
  /\ pc = "rings"
  /\ hitIdx <= Len(AllHits)
  /\ LET hit      == AllHits[hitIdx]
         filtered == Filtered(hit.members, legit)
         ringId   == RingId(ringCounter + 1)
     IN IF TooFew(filtered)
          THEN UNCHANGED <<ringCounter, fraudRings, acctRings, acctPatterns>>
          ELSE /\ ringCounter' = ringCounter + 1
               /\ fraudRings' = Append(fraudRings,
                    [ring_id |-> ringId, member_accounts |-> filtered,
                     pattern_type |-> hit.patternType,
                     risk_score |-> RiskScore(hit.baseScore, Len(filtered))])
               /\ acctRings' = PushRing(acctRings, filtered, ringId)
               /\ acctPatterns' = AddTag(acctPatterns, filtered, hit.patternTag)
  /\ hitIdx' = hitIdx + 1
  /\ UNCHANGED <<transactions, work, pc, cycles, smurfing, shells, legit, suspiciousAccounts,
                 result>>

\* acctPatterns after scoring: patterns.add('high_velocity') on the scored accounts
TagVelocity(txs, ap, ar, lg) ==
  [i \in 1..Len(ap) |->
     IF MapHas(ar, ap[i].key) /\ ap[i].key \notin lg /\ HighVelocity(txs, ap[i].key)
          /\ <<"high_velocity">> \notin Range(ap[i].val)
       THEN [key |-> ap[i].key, val |-> Append(ap[i].val, <<"high_velocity">>)]
       ELSE ap[i]]

\* lines 87-113: the scoring loop and the sort that follows it
ScoreAccounts ==
  /\ pc = "rings"
  /\ hitIdx > Len(AllHits)
  /\ \E scored \in {ScoreAll(transactions, acctRings, acctPatterns, legit)} :
       suspiciousAccounts' = SortByScore(scored)
  /\ acctPatterns' = TagVelocity(transactions, acctPatterns, acctRings, legit)
  /\ pc' = "graph"
  /\ UNCHANGED <<transactions, work, cycles, smurfing, shells, legit, hitIdx, ringCounter,
                 fraudRings, acctRings, result>>

\* a variant that reports Math.max(1, allNodes.size) accounts
AssembleResultAtLeastOne ==
  /\ pc = "graph"
  /\ \E dt \in ElapsedTenths :
       result' =
         [ready |-> TRUE,
          suspicious_accounts |-> suspiciousAccounts,
          fraud_rings |-> fraudRings,
          summary |-> [total_accounts_analyzed     |->
                         IF AllNodes(transactions) = <<>> THEN 1
                         ELSE Len(AllNodes(transactions)),
                       suspicious_accounts_flagged |-> Len(suspiciousAccounts),
                       fraud_rings_detected        |-> Len(fraudRings),
                       processing_time_tenths      |-> dt],
          graph |-> [nodes |-> GraphNodes(transactions, acctRings, legit, suspiciousAccounts),
                     edges |-> GraphEdges(transactions)]]
  /\ pc' = "done"
  /\ UNCHANGED <<transactions, work, cycles, smurfing, shells, legit, hitIdx, ringCounter,
                 fraudRings, acctRings, acctPatterns, suspiciousAccounts>>

\* lines 116-143
AssembleResult ==
  /\ pc = "graph"
  /\ \E dt \in ElapsedTenths :
       result' =
         [ready |-> TRUE,
          suspicious_accounts |-> suspiciousAccounts,
          fraud_rings |-> fraudRings,
          summary |-> [total_accounts_analyzed     |-> Len(AllNodes(transactions)),
                       suspicious_accounts_flagged |-> Len(suspiciousAccounts),
                       fraud_rings_detected        |-> Len(fraudRings),
                       processing_time_tenths      |-> dt],
          graph |-> [nodes |-> GraphNodes(transactions, acctRings, legit, suspiciousAccounts),
                     edges |-> GraphEdges(transactions)]]
  /\ pc' = "done"
  /\ UNCHANGED <<transactions, work, cycles, smurfing, shells, legit, hitIdx, ringCounter,
                 fraudRings, acctRings, acctPatterns, suspiciousAccounts>>

Next == DetectPatterns \/ FalsePositiveFilters \/ AddRing \/ ScoreAccounts \/ AssembleResult

\* the state on entry to analyzeTransactions, for a batch drawn from `batches`
InitWith(batches) ==
  /\ transactions \in batches
  /\ pc = "detect"
  /\ cycles = <<>> /\ smurfing = <<>> /\ shells = <<>>
  /\ legit = {}
  /\ hitIdx = 1
  /\ ringCounter = 0
  /\ fraudRings = <<>>
  /\ acctRings = <<>> /\ acctPatterns = <<>>
  /\ suspiciousAccounts = <<>>
  /\ result = NoResult
  /\ work = Idle

\* ---------------------------------------------------------------- transfer batches
\* account and transfer ids as the ingestion layer hands them over: "A<k>", "T<k>"
Name(k) == <<65>> \o DecStr(k)
TxId(k) == <<84>> \o DecStr(k)

\* a batch from a sequence of <<sender, receiver, amount, timestamp>>
Batch(rows) ==
  [i \in 1..Len(rows) |->
     [transaction_id |-> TxId(i), sender_id |-> Name(rows[i][1]),
      receiver_id |-> Name(rows[i][2]), amount |-> rows[i][3], timestamp |-> rows[i][4]]]

\* rows of amount 100, one hour apart, from a sequence of <<sender, receiver>>
Hourly(pairs) == [i \in 1..Len(pairs) |-> <<pairs[i][1], pairs[i][2], 100, i * MS_PER_HOUR>>]

\* -- rings with chords: a directed ring over n accounts, entered at offset r, then
\*    up to MaxChords further transfers among the ring's accounts (self-transfers
\*    and parallel transfers included), or the self-transfer A8 -> A8 and the
\*    return transfer A9 -> A8 together.  The accounts are A8, A9, A10, ...: their
\*    lexicographic order differs from the order in which they are first seen.
MaxRing == 6
MaxChords == 1

RingPairs(n, r) ==
  [i \in 1..n |-> LET a == ((r + i - 1) % n) + 1
                  IN <<7 + a, 7 + (a % n) + 1>>]

\* the sequences of at most k distinct chords over n accounts, in increasing order
RECURSIVE ChordSeqs(_, _)
ChordSeqs(n, k) ==
  IF k = 0 THEN {<<>>}
  ELSE LET prev == ChordSeqs(n, k - 1)
           After(c, a, b) ==
             \/ c = <<>>
             \/ c[Len(c)][1] < 7 + a
             \/ c[Len(c)][1] = 7 + a /\ c[Len(c)][2] < 7 + b
       IN prev \cup
          {Append(c[1], <<7 + c[2], 7 + c[3]>>) :
             c \in {d \in {e \in prev : Len(e) = k - 1} \X (1..n) \X (1..n) :
                      After(d[1], d[2], d[3])}}

RingBatches ==
  UNION {{Batch(Hourly(RingPairs(n, r) \o c)) : r \in 0..(n - 1), c \in ChordSeqs(n, MaxChords)}
           : n \in 0..MaxRing}
  \cup UNION {{Batch(Hourly(RingPairs(n, r) \o <<<<8, 8>>, <<9, 8>>>>)) : r \in 0..(n - 1)}
                : n \in 2..MaxRing}
  \cup {<<>>}

InitCycles == InitWith(RingBatches)
SpecCycles == InitCycles /\ [][Next]_vars

\* -- cliques: every transfer among m accounts A1..Am (self-transfers excluded),
\*    optionally with one of them left out
MaxClique == 4

CliquePairs(m, skip) ==
  SelectSeq([i \in 1..(m * m) |-> <<((i - 1) \div m) + 1, ((i - 1) % m) + 1>>],
            LAMBDA e : e[1] # e[2] /\ e # skip)

CliqueBatches ==
  UNION {{Batch(Hourly(CliquePairs(m, skip))) : skip \in {<<0, 0>>} \cup ((1..m) \X (1..m))}
           : m \in 2..MaxClique}

\* -- hubs: an account A1 that receives from inN distinct senders A11.., again from
\*    `late` of them 200 hours later, and pays outN distinct receivers A31.. (the
\*    same amount each, or a different one each); optionally A31 pays A11 back
\*    (closing A1 -> A31 -> A11 -> A1), A31 makes ten equal payments of its own to
\*    A51.., and A1 feeds a chain of quiet accounts A71..
MaxIn == 17
MaxLate == 3
MaxTail == 3
InCounts == {0, FAN_MIN - 1, FAN_MIN, MaxIn}
OutCounts == {0, FAN_MIN - 1, FAN_MIN}
Gaps == {60000, 3 * MS_PER_HOUR}

HubRows(inN, late, outN, uniform, gap, close, r1pay, tail) ==
  [i \in 1..inN |-> <<10 + i, 1, 100 + i, i * gap>>]
  \o [i \in 1..late |-> <<10 + i, 1, 100, 200 * MS_PER_HOUR + i * gap>>]
  \o [j \in 1..outN |-> <<1, 30 + j, IF uniform THEN 500 ELSE 50 * j, (inN + j) * gap>>]
  \o (IF close THEN <<<<31, 11, 500, (inN + outN + 1) * gap>>>> ELSE <<>>)
  \o (IF r1pay THEN [k \in 1..PAYROLL_MIN_OUT |-> <<31, 50 + k, 500, (inN + outN + 1 + k) * gap>>]
      ELSE <<>>)
  \o [k \in 1..tail |-> <<IF k = 1 THEN 1 ELSE 69 + k, 70 + k, 500, k * gap>>]

HubBatches ==
  {Batch(HubRows(c[1], c[2], c[3], c[4], c[5], c[6], c[7], c[8])) :
     c \in InCounts \X {0, MaxLate} \X OutCounts \X BOOLEAN \X Gaps \X BOOLEAN \X BOOLEAN
           \X {0, MaxTail}}

Init == InitWith(CliqueBatches \cup HubBatches)
Spec == Init /\ [][Next]_vars

\* -- fans: k distinct counterparties A11.. of A1, the first j of them at time 0 and
\*    the others `gap` later, optionally one more transfer of A11 at the later
\*    time; as given or in reverse order; towards A1 (fan-in) or from it (fan-out)
MaxFan == 11
WindowEdges == {WINDOW_MS - 1, WINDOW_MS, WINDOW_MS + 1}

Reverse(s) == [i \in 1..Len(s) |-> s[Len(s) + 1 - i]]

FanRows(k, j, gap, dup, rev, out) ==
  LET rows == [i \in 1..k |-> <<10 + i, 1, 100, IF i <= j THEN 0 ELSE gap>>]
                \o (IF dup THEN <<<<11, 1, 100, gap>>>> ELSE <<>>)
      ordered == IF rev THEN Reverse(rows) ELSE rows
  IN [i \in 1..Len(ordered) |->
        IF out THEN <<ordered[i][2], ordered[i][1], ordered[i][3], ordered[i][4]>>
        ELSE ordered[i]]

FanBatches ==
  UNION {{Batch(FanRows(k, c[1], c[2], c[3], c[4], c[5])) :
            c \in (0..k) \X WindowEdges \X BOOLEAN \X BOOLEAN \X BOOLEAN}
           : k \in (FAN_MIN - 2)..MaxFan}

InitSmurf == InitWith(FanBatches)
SpecSmurf == InitSmurf /\ [][Next]_vars

\* -- chains: a busy origin A1 (three transfers to A61..A63 besides) feeding a path
\*    A21 -> A22 -> ... of m quiet accounts.  The last of them may pay on: a busy
\*    account A50, the origin, the first quiet account, or itself.  Options: a
\*    second transfer A1 -> A21; account A(20+busyAt) made busy by two more
\*    incoming transfers; a transfer A21 -> A50 placed before A21 -> A22.
MaxChain == 9
TailKinds == {"none", "busy", "origin", "loop", "self"}

ChainPairs(m, tailKind, dupFirst, busyAt, decoy) ==
  <<<<1, 21>>>>
  \o (IF dupFirst THEN <<<<1, 21>>>> ELSE <<>>)
  \o [i \in 1..3 |-> <<1, 60 + i>>]
  \o (IF decoy THEN <<<<21, 50>>>> ELSE <<>>)
  \o [i \in 1..(m - 1) |-> <<20 + i, 21 + i>>]
  \o (CASE tailKind = "busy"   -> <<<<20 + m, 50>>>>
        [] tailKind = "origin" -> <<<<20 + m, 1>>>>
        [] tailKind = "loop"   -> <<<<20 + m, 21>>>>
        [] tailKind = "self"   -> <<<<20 + m, 20 + m>>>>
        [] OTHER               -> <<>>)
  \o (IF decoy \/ tailKind = "busy" THEN [i \in 1..3 |-> <<50, 80 + i>>] ELSE <<>>)
  \o (IF busyAt > 0 THEN [i \in 1..2 |-> <<90 + i, 20 + busyAt>>] ELSE <<>>)

ChainBatches ==
  UNION {{Batch(Hourly(ChainPairs(m, c[1], c[2], c[3], c[4]))) :
            c \in TailKinds \X BOOLEAN \X (0..m) \X BOOLEAN}
           : m \in 1..MaxChain}

InitShell == InitWith(ChainBatches)
SpecShell == InitShell /\ [][Next]_vars

\* -- a hub with a self-transfer: k accounts send to A1 (or receive from it), gap
\*    apart, and A1 -> A1 is put after the selfAt-th of them (selfAt = 0: nowhere)
MaxSelf == 11

SelfRows(k, selfAt, gap, out) ==
  LET others == [i \in 1..k |-> IF out THEN <<1, 10 + i>> ELSE <<10 + i, 1>>]
      pairs == IF selfAt = 0 THEN others
               ELSE SubSeq(others, 1, selfAt) \o <<<<1, 1>>>> \o SubSeq(others, selfAt + 1, k)
  IN [i \in 1..Len(pairs) |->
        <<pairs[i][1], pairs[i][2], IF out THEN 50 * i ELSE 100, i * gap>>]

SelfBatches ==
  UNION {{Batch(SelfRows(k, c[1], c[2], c[3])) : c \in (0..k) \X Gaps \X BOOLEAN}
           : k \in (FAN_MIN - 1)..MaxSelf}

InitSelf == InitWith(SelfBatches)
SpecSelf == InitSelf /\ [][Next]_vars

\* -- a payer: A1 sends to n accounts, gap apart, amounts all 0 ("zero"), all 500
\*    ("uniform"), 500 to 509 ("near"), or all 0 but the last ("oneoff")
MaxPay == 11
AmountKinds == {"zero", "uniform", "near", "oneoff"}

PayRows(n, kind, gap, rev) ==
  LET Amount(j) == CASE kind = "zero"    -> 0
                     [] kind = "uniform" -> 500
                     [] kind = "near"    -> 500 + (j % 10)
                     [] OTHER            -> IF j = n THEN 500 ELSE 0
      rows == [j \in 1..n |-> <<1, 30 + j, Amount(j), j * gap>>]
  IN IF rev THEN Reverse(rows) ELSE rows

PayBatches ==
  UNION {{Batch(PayRows(n, c[1], c[2], c[3])) : c \in AmountKinds \X Gaps \X BOOLEAN}
           : n \in (PAYROLL_MIN_OUT - 1)..MaxPay}

InitPay == InitWith(PayBatches)
SpecPay == InitPay /\ [][Next]_vars

\* -- ids with a bar: account ids are arbitrary non-empty strings, so "A|B" is one.
\*    Two rings of three accounts, each over one of four triples of ids such as
\*    ("A|B", "C", "D") and ("A", "B|C", "D"), each entered at any of its accounts
Letter(k) == <<64 + k>>
Barred(a, b) == Letter(a) \o <<SEP_BAR>> \o Letter(b)

BarRings ==
  {<<Barred(1, 2), Letter(3), Letter(4)>>,
   <<Letter(1), Barred(2, 3), Letter(4)>>,
   <<Letter(1), Letter(2), Letter(3)>>,
   <<Barred(1, 2), Barred(3, 4), Letter(5)>>}

IdRingPairs(ids, r) ==
  [i \in 1..Len(ids) |-> <<ids[((r + i - 1) % Len(ids)) + 1], ids[((r + i) % Len(ids)) + 1]>>]

\* a batch from a sequence of <<sender id, receiver id>>: amount 100, one hour apart
IdBatch(pairs) ==
  [i \in 1..Len(pairs) |->
     [transaction_id |-> TxId(i), sender_id |-> pairs[i][1], receiver_id |-> pairs[i][2],
      amount |-> 100, timestamp |-> i * MS_PER_HOUR]]

BarBatches ==
  {IdBatch(IdRingPairs(c[1], c[2]) \o IdRingPairs(c[3], c[4])) :
     c \in BarRings \X (0..2) \X BarRings \X (0..2)}

InitBar == InitWith(BarBatches)
SpecBar == InitBar /\ [][Next]_vars

\* ---------------------------------------------------------------- the detectors, step by step
\* The three detectors of lines 53-55 followed one loop iteration at a time.  work
\* holds the loop variables: phase is the loop that runs, k the position of the
\* outer loop, j that of the inner loop, path and frames the stack of dfs (frames[d]
\* is the next edge of path[d] to look at), raw is allCycles, chain the chain that
\* the while loop extends (<<>> between two chains); nodes, adj and stats are
\* allNodes, adjList and nodeStats of lines 24-50, keys the keys of byReceiver or
\* bySender and sorted the sorted group of the key the scan is at.
afterDetection == <<legit, hitIdx, ringCounter, fraudRings, acctRings, acctPatterns,
                    suspiciousAccounts, result>>

StartWork(txs) ==
  [Idle EXCEPT !.phase = "cycles", !.k = 1, !.j = 1,
               !.path = IF txs = <<>> THEN <<>> ELSE <<AllNodes(txs)[1]>>,
               !.frames = <<1>>,
               !.nodes = AllNodes(txs), !.adj = AdjList(txs), !.stats = NodeStats(txs)]

\* lines 156-165: one pass of the for loop of dfs(current, depth)
DfsVisit ==
  /\ pc = "detect" /\ work.phase = "cycles"
  /\ work.k <= Len(work.nodes)
  /\ LET start == work.nodes[work.k]
         path  == work.path
         top   == Len(path)
         i     == work.frames[top]
         edges == work.adj[path[top]]
         depth == top - 1
     IN /\ i <= Len(edges)
        /\ LET target   == edges[i]
               advanced == [work.frames EXCEPT ![top] = i + 1]
           IN work' =
                IF target = start /\ depth + 1 >= MIN_LEN /\ depth + 1 <= MAX_LEN
                  THEN [work EXCEPT !.frames = advanced, !.raw = Append(@, path)]
                ELSE IF /\ target \notin Range(path)
                        /\ target \notin {work.nodes[h] : h \in 1..(work.k - 1)}
                        /\ depth + 1 < MAX_LEN
                  THEN [work EXCEPT !.path = Append(path, target),
                                    !.frames = Append(advanced, 1)]
                ELSE [work EXCEPT !.frames = advanced]
  /\ UNCHANGED <<transactions, pc, cycles, smurfing, shells, afterDetection>>

\* the for loop of dfs is over: path.pop() and back to the caller, or, for
\* dfs(start, 0), processed.add(start) and on to the next start account
DfsReturn ==
  /\ pc = "detect" /\ work.phase = "cycles"
  /\ work.k <= Len(work.nodes)
  /\ LET top == Len(work.path)
     IN /\ work.frames[top] > Len(work.adj[work.path[top]])
        /\ work' =
             IF top > 1
               THEN [work EXCEPT !.path = SubSeq(@, 1, top - 1),
                                 !.frames = SubSeq(@, 1, top - 1)]
               ELSE [work EXCEPT !.k = @ + 1,
                                 !.path = IF work.k < Len(work.nodes)
                                            THEN <<work.nodes[work.k + 1]>> ELSE <<>>,
                                 !.frames = <<1>>]
  /\ UNCHANGED <<transactions, pc, cycles, smurfing, shells, afterDetection>>

\* the keys of byReceiver (fan_in) or bySender (fan_out), and a key's sorted group
FanKeys(side) ==
  IF side = "fan_in" THEN Uniq(Receivers(transactions)) ELSE Uniq(Senders(transactions))

FanSorted(side, key) ==
  SortByTs(IF side = "fan_in" THEN InTxs(transactions, key) ELSE OutTxs(transactions, key))

FanParties(side, windowTxs) ==
  Uniq(IF side = "fan_in" THEN Senders(windowTxs) ELSE Receivers(windowTxs))

\* lines 188-196 and 208-215: the groups of one direction are built, and the
\* group of the k-th key is sorted when the loop reaches it
FanBegin(side, k) ==
  LET keys == FanKeys(side)
  IN [work EXCEPT !.phase = side, !.k = k, !.j = 1,
                  !.path = <<>>, !.frames = <<>>, !.raw = <<>>,
                  !.keys = keys,
                  !.sorted = IF k <= Len(keys) THEN FanSorted(side, keys[k]) ELSE <<>>]

\* lines 172-182: every start account is done; deduplicate
CyclesDone ==
  /\ pc = "detect" /\ work.phase = "cycles"
  /\ work.k > Len(work.nodes)
  /\ cycles' = Dedupe(work.raw)
  /\ work' = FanBegin("fan_in", 1)
  /\ UNCHANGED <<transactions, pc, smurfing, shells, afterDetection>>

\* lines 198-206 and 217-225: one anchor of one account's scan; a window that
\* qualifies pushes the hit and leaves the anchor loop, as does the end of the group
FanScan ==
  /\ pc = "detect" /\ work.phase \in {"fan_in", "fan_out"}
  /\ work.k <= Len(work.keys)
  /\ LET key     == work.keys[work.k]
         sorted  == work.sorted
         parties == FanParties(work.phase, WindowTxs(sorted, work.j))
     IN IF work.j > Len(sorted)
          THEN /\ work' = FanBegin(work.phase, work.k + 1)
               /\ UNCHANGED smurfing
        ELSE IF Len(parties) >= FAN_MIN
          THEN /\ smurfing' = Append(smurfing, [type |-> work.phase,
                                                accounts |-> <<key>> \o parties])
               /\ work' = FanBegin(work.phase, work.k + 1)
        ELSE /\ work' = [work EXCEPT !.j = @ + 1]
             /\ UNCHANGED smurfing
  /\ UNCHANGED <<transactions, pc, cycles, shells, afterDetection>>

\* the loop over the groups is over: on to fan-out, then to the shell detector
FanNext ==
  /\ pc = "detect" /\ work.phase \in {"fan_in", "fan_out"}
  /\ work.k > Len(work.keys)
  /\ work' = IF work.phase = "fan_in"
               THEN FanBegin("fan_out", 1)
               ELSE [work EXCEPT !.phase = "shells", !.k = 1, !.j = 1,
                                 !.keys = <<>>, !.sorted = <<>>]
  /\ UNCHANGED <<transactions, pc, cycles, smurfing, shells, afterDetection>>

\* lines 235-245: the next start account, or its next edge, or the start of a chain
ShellStart ==
  /\ pc = "detect" /\ work.phase = "shells" /\ work.chain = <<>>
  /\ work.k <= Len(work.nodes)
  /\ LET start == work.nodes[work.k]
         edges == work.adj[start]
     IN work' =
          IF work.stats[start].totalTransactions <= SHELL_MAX_TX \/ work.j > Len(edges)
            THEN [work EXCEPT !.k = @ + 1, !.j = 1]
          ELSE IF work.stats[edges[work.j]].totalTransactions > SHELL_MAX_TX
            THEN [work EXCEPT !.j = @ + 1]
          ELSE [work EXCEPT !.chain = <<start, edges[work.j]>>]
  /\ UNCHANGED <<transactions, pc, cycles, smurfing, shells, afterDetection>>

\* lines 264-267: the chain is kept if it is long enough and its key is new
KeepChain(chain) ==
  IF LongEnough(chain)
       /\ \A h \in 1..Len(shells) : Join(shells[h], SEP_ARROW) # Join(chain, SEP_ARROW)
    THEN Append(shells, chain)
    ELSE shells

\* a variant whose break is inside `if (nextEdges.length > 0)`: with no unvisited
\* successor the loop comes round again
ShellExtendNoBreak ==
  /\ pc = "detect" /\ work.phase = "shells" /\ work.chain # <<>>
  /\ LET chain     == work.chain
         nextEdges == SelectSeq(work.adj[chain[Len(chain)]],
                                LAMBDA e : e \notin Range(chain))
         nextShell == FindShell(nextEdges, work.stats)
     IN IF Len(chain) < CHAIN_CAP /\ nextShell # 0
          THEN /\ work' = [work EXCEPT !.chain = Append(chain, nextEdges[nextShell])]
               /\ UNCHANGED shells
        ELSE IF Len(chain) < CHAIN_CAP /\ Len(nextEdges) = 0
          THEN UNCHANGED <<work, shells>>
        ELSE /\ shells' = KeepChain(IF Len(chain) < CHAIN_CAP
                                      THEN Append(chain, nextEdges[1]) ELSE chain)
             /\ work' = [work EXCEPT !.chain = <<>>, !.j = @ + 1]
  /\ UNCHANGED <<transactions, pc, cycles, smurfing, afterDetection>>

\* lines 247-267: one pass of the while loop; when the loop is left (the cap is
\* reached, or no low-activity successor is found) the chain is kept or dropped
ShellExtend ==
  /\ pc = "detect" /\ work.phase = "shells" /\ work.chain # <<>>
  /\ LET chain     == work.chain
         nextEdges == SelectSeq(work.adj[chain[Len(chain)]],
                                LAMBDA e : e \notin Range(chain))
         nextShell == FindShell(nextEdges, work.stats)
     IN IF Len(chain) < CHAIN_CAP /\ nextShell # 0
          THEN /\ work' = [work EXCEPT !.chain = Append(chain, nextEdges[nextShell])]
               /\ UNCHANGED shells
        ELSE /\ shells' = KeepChain(IF Len(chain) < CHAIN_CAP /\ Len(nextEdges) > 0
                                      THEN Append(chain, nextEdges[1]) ELSE chain)
             /\ work' = [work EXCEPT !.chain = <<>>, !.j = @ + 1]
  /\ UNCHANGED <<transactions, pc, cycles, smurfing, afterDetection>>

\* the loop over the start accounts is over: the detectors have returned
ShellsDone ==
  /\ pc = "detect" /\ work.phase = "shells" /\ work.chain = <<>>
  /\ work.k > Len(work.nodes)
  /\ pc' = "filter"
  /\ work' = Idle
  /\ UNCHANGED <<transactions, cycles, smurfing, shells, afterDetection>>

\* -- the batches followed step by step: the rings of at most MaxStepLen transfers,
\*    the rings of at most MaxStepLen accounts with both a self-transfer A8 -> A8
\*    and a second transfer A8 -> A9, the plain chains of at most MaxStepLen quiet
\*    accounts with every kind of tail, and fans of FAN_MIN counterparties (all at
\*    once, or MaxStepLen of them a window earlier), in and out
MaxStepLen == 4

StepBatches ==
  {b \in RingBatches : Len(b) <= MaxStepLen}
    \cup {Batch(Hourly(RingPairs(n, 0) \o <<<<8, 8>>, <<8, 9>>>>)) : n \in 3..MaxStepLen}
    \cup {Batch(Hourly(ChainPairs(m, t, FALSE, 0, FALSE))) :
            m \in 1..MaxStepLen, t \in TailKinds}
    \cup {Batch(FanRows(FAN_MIN, j, WINDOW_MS + 1, FALSE, FALSE, out)) :
            j \in {0, MaxStepLen}, out \in BOOLEAN}

\* line 21: analyzeTransactions is called with a batch
Call ==
  /\ pc = "call"
  /\ transactions' \in StepBatches
  /\ pc' = "detect"
  /\ work' = StartWork(transactions')
  /\ UNCHANGED <<cycles, smurfing, shells, afterDetection>>

NextSteps ==
  \/ Call
  \/ DfsVisit \/ DfsReturn \/ CyclesDone \/ FanScan \/ FanNext
  \/ ShellStart \/ ShellExtend \/ ShellsDone
  \/ FalsePositiveFilters \/ AddRing \/ ScoreAccounts \/ AssembleResult

\* before the call
InitSteps ==
  /\ transactions = <<>>
  /\ pc = "call"
  /\ cycles = <<>> /\ smurfing = <<>> /\ shells = <<>>
  /\ legit = {}
  /\ hitIdx = 1
  /\ ringCounter = 0
  /\ fraudRings = <<>>
  /\ acctRings = <<>> /\ acctPatterns = <<>>
  /\ suspiciousAccounts = <<>>
  /\ result = NoResult
  /\ work = Idle

\* analyzeTransactions is one synchronous call: it keeps running until it returns
SpecSteps == InitSteps /\ [][NextSteps]_vars /\ WF_vars(NextSteps)

\* ---------------------------------------------------------------- properties
\* the accounts the merchant rule or the payroll rule classifies as legitimate
Classified ==
  DetectMerchants(NodeStats(transactions), transactions)
    \cup DetectPayroll(NodeStats(transactions), transactions)

\* how many members of a hit are not classified as legitimate
Survivors(hit) ==
  LET cl == Classified
  IN Len(SelectSeq(hit.members, LAMBDA id : id \notin cl))

RingsOfType(type) == SelectSeq(fraudRings, LAMBDA ring : ring.pattern_type = type)

\* C1: no account classified as merchant or payroll is a member of any ring or an
\* entry of suspicious_accounts, in the aggregation state or in the returned result.
C1_NoLegitInRings ==
  LET cl == Classified
  IN /\ \A k \in 1..Len(fraudRings) : Range(fraudRings[k].member_accounts) \cap cl = {}
     /\ \A k \in 1..Len(suspiciousAccounts) : suspiciousAccounts[k].account_id \notin cl
     /\ result.ready =>
          /\ \A k \in 1..Len(result.fraud_rings) :
               Range(result.fraud_rings[k].member_accounts) \cap cl = {}
          /\ \A k \in 1..Len(result.suspicious_accounts) :
               result.suspicious_accounts[k].account_id \notin cl

\* a finished analysis in which a classified account was part of a cycle hit, of a
\* fan-in hit, of a fan-out hit and of a shell chain, and rings were built from them
C1_Witness ==
  /\ pc = "done"
  /\ \A type \in {"cycle", "fan_in", "fan_out", "shell_network"} : RingsOfType(type) # <<>>
  /\ \E a \in Classified :
       /\ \E i \in 1..Len(cycles) : a \in Range(cycles[i])
       /\ \E i \in 1..Len(smurfing) : smurfing[i].type = "fan_in" /\ a \in Range(smurfing[i].accounts)
       /\ \E i \in 1..Len(smurfing) : smurfing[i].type = "fan_out" /\ a \in Range(smurfing[i].accounts)
       /\ \E i \in 1..Len(shells) : a \in Range(shells[i])
  /\ result.suspicious_accounts # <<>>

\* C2: every ring has at least 2 members, and handling a hit that keeps fewer than
\* 2 members after the classified accounts are removed changes neither the rings,
\* nor the ring counter, nor any account's ring ids or pattern tags.
C2_MinTwoMembers ==
  /\ [](\A k \in 1..Len(fraudRings) : Len(fraudRings[k].member_accounts) >= 2)
  /\ [][(pc = "rings" /\ hitIdx <= Len(AllHits) /\ Survivors(AllHits[hitIdx]) < 2)
          => /\ fraudRings' = fraudRings
             /\ ringCounter' = ringCounter
             /\ acctRings' = acctRings
             /\ acctPatterns' = acctPatterns]_vars

\* a hit with fewer than 2 survivors has been handled, next to hits that gave rings
C2_Witness ==
  /\ pc = "done"
  /\ \E i \in 1..Len(AllHits) : Survivors(AllHits[i]) < 2
  /\ fraudRings # <<>>

\* C3: every suspicion_score and every risk_score lies in 0..100.
C3_ScoresClamped ==
  /\ \A k \in 1..Len(fraudRings) : fraudRings[k].risk_score \in 0..100
  /\ \A k \in 1..Len(suspiciousAccounts) : suspiciousAccounts[k].suspicion_score \in 0..100
  /\ result.ready =>
       /\ \A k \in 1..Len(result.fraud_rings) : result.fraud_rings[k].risk_score \in 0..100
       /\ \A k \in 1..Len(result.suspicious_accounts) :
            result.suspicious_accounts[k].suspicion_score \in 0..100
       /\ \A k \in 1..Len(result.graph.nodes) : result.graph.nodes[k].suspicion_score \in 0..100

\* a result with a fan-in ring of 18 or more members (65 + 2*18 > 100) and an
\* account tagged cycle, fan_in, fan_out and high_velocity in two or more rings
\* (35 + 25 + 25 + 15 + 15 > 100)
C3_Witness ==
  /\ pc = "done"
  /\ \E k \in 1..Len(result.fraud_rings) :
       /\ result.fraud_rings[k].pattern_type = "fan_in"
       /\ Len(result.fraud_rings[k].member_accounts) >= 18
  /\ \E k \in 1..Len(result.suspicious_accounts) :
       LET tags == Range(result.suspicious_accounts[k].detected_patterns)
       IN /\ {<<"fan_in">>, <<"fan_out">>, <<"high_velocity">>, <<"cycle_length_", 3>>} \subseteq tags
          /\ result.suspicious_accounts[k].suspicion_score = 100

\* the hits handled so far that kept 2 or more members, in handling order
KeptHits ==
  LET cl == Classified
  IN SelectSeq(SubSeq(AllHits, 1, Min2(hitIdx - 1, Len(AllHits))),
               LAMBDA hit : Len(SelectSeq(hit.members, LAMBDA id : id \notin cl)) >= 2)

\* the base score the pattern of a ring calls for, given the hit the ring came from
BaseOf(ring, hit) ==
  CASE ring.pattern_type = "cycle" -> 75 + 3 * Len(hit.members)
    [] ring.pattern_type \in {"fan_in", "fan_out"} -> 65
    [] ring.pattern_type = "shell_network" -> 70

\* C4: the k-th ring comes from the k-th hit that kept 2 or more members, and its
\* risk_score is min(100, base + 2 * members) with base 75 + 3 * (accounts of the
\* detected cycle), 65 for fan_in and fan_out, 70 for shell_network; a 3-cycle
\* with 3 surviving members scores 90.
C4_RiskScoreFormula ==
  pc \in {"rings", "graph", "done"} =>
    /\ Len(fraudRings) = Len(KeptHits)
    /\ \A k \in 1..Len(fraudRings) :
         LET ring == fraudRings[k]
             hit  == KeptHits[k]
         IN /\ ring.pattern_type \in {"cycle", "fan_in", "fan_out", "shell_network"}
            /\ Range(ring.member_accounts) \subseteq Range(hit.members)
            /\ ring.risk_score
                 = Min2(100, BaseOf(ring, hit) + 2 * Len(ring.member_accounts))
            /\ (ring.pattern_type = "cycle" /\ Len(hit.members) = 3
                  /\ Len(ring.member_accounts) = 3) => ring.risk_score = 90

\* a result with a cycle ring that lost a member of its cycle to the filters, a
\* fan-in ring, a fan-out ring and a shell ring
C4_Witness ==
  /\ pc = "done"
  /\ \E k \in 1..Len(fraudRings) :
       /\ fraudRings[k].pattern_type = "cycle"
       /\ Len(fraudRings[k].member_accounts) < Len(KeptHits[k].members)
  /\ \A type \in {"fan_in", "fan_out", "shell_network"} : RingsOfType(type) # <<>>

\* the number a ring id of the form RING_ddd stands for, -1 for any other string
IdNumber(id) ==
  IF /\ Len(id) = 8
     /\ SubSeq(id, 1, 5) = <<82, 73, 78, 71, 95>>
     /\ \A i \in 6..8 : id[i] \in 48..57
    THEN 100 * (id[6] - 48) + 10 * (id[7] - 48) + (id[8] - 48)
    ELSE -1

TypeRank(type) ==
  CASE type = "cycle" -> 1 [] type \in {"fan_in", "fan_out"} -> 2 [] OTHER -> 3

\* C5: the k-th ring carries the number k zero-padded to 3 digits (for the fewer
\* than 1000 rings of these batches), the ids are pairwise distinct, the counter
\* equals the number of rings (no discarded hit took a number), and the rings of
\* cycle hits come before those of smurfing hits, which come before shell rings.
C5_RingIdsSequential ==
  /\ ringCounter = Len(fraudRings)
  /\ \A k \in 1..Len(fraudRings) : IdNumber(fraudRings[k].ring_id) = k
  /\ \A j, k \in 1..Len(fraudRings) :
       /\ j # k => fraudRings[j].ring_id # fraudRings[k].ring_id
       /\ j < k => TypeRank(fraudRings[j].pattern_type) <= TypeRank(fraudRings[k].pattern_type)
  /\ result.ready => result.fraud_rings = fraudRings

\* a discarded hit was handled before a hit that gave a ring
C5_Witness ==
  /\ pc = "done"
  /\ \E i, j \in 1..Len(AllHits) :
       i < j /\ Survivors(AllHits[i]) < 2 /\ Survivors(AllHits[j]) >= 2
  /\ fraudRings # <<>>

\* ---------------------------------------------------------------- cycle claims
\* there is a transfer from account a to account b in the batch
Transfer(a, b) ==
  \E i \in 1..Len(transactions) :
    transactions[i].sender_id = a /\ transactions[i].receiver_id = b

\* the account after position k of a cycle, going round
NextIn(c, k) == c[(k % Len(c)) + 1]

\* C6: every cycle the detector returns has 3 to 5 accounts, all different, each
\* sending to the next and the last to the first; so neither a self-transfer nor
\* a two-account back-and-forth is ever returned as a cycle.
C6_CycleLengthBounds ==
  \A i \in 1..Len(cycles) :
    /\ Len(cycles[i]) \in 3..5
    /\ Cardinality(Range(cycles[i])) = Len(cycles[i])
    /\ \A k \in 1..Len(cycles[i]) : Transfer(cycles[i][k], NextIn(cycles[i], k))

\* the detector ran on a batch with a self-transfer and a back-and-forth pair
\* around a ring of 5 accounts, and returned the ring and nothing else
C6_Witness ==
  /\ pc = "filter"
  /\ \E a \in Range(AllNodes(transactions)) : Transfer(a, a)
  /\ \E a, b \in Range(AllNodes(transactions)) : a # b /\ Transfer(a, b) /\ Transfer(b, a)
  /\ Len(cycles) = 1
  /\ Len(cycles[1]) = 5

\* a is before b in lexicographic order of code units
LexBefore(a, b) ==
  \E k \in 1..(Len(a) + 1) :
    /\ \A h \in 1..(k - 1) : h <= Len(b) /\ a[h] = b[h]
    /\ \/ k = Len(a) + 1 /\ k <= Len(b)
       \/ k <= Len(a) /\ k <= Len(b) /\ a[k] < b[k]

IsRotation(c, d) ==
  /\ Len(c) = Len(d)
  /\ \E r \in 0..(Len(c) - 1) : \A k \in 1..Len(c) : d[k] = c[((k - 1 + r) % Len(c)) + 1]

\* the batch without its parallel transfers: the first transfer of each pair
SingleEdges(txs) ==
  SelectSeq(txs, LAMBDA t :
    t.transaction_id =
      txs[CHOOSE i \in 1..Len(txs) :
            /\ txs[i].sender_id = t.sender_id /\ txs[i].receiver_id = t.receiver_id
            /\ \A h \in 1..(i - 1) :
                 ~(txs[h].sender_id = t.sender_id /\ txs[h].receiver_id = t.receiver_id)
         ].transaction_id)

\* C7: every returned cycle starts at its lexicographically smallest account and
\* no two returned cycles are rotations of one another; the same cycles are
\* returned when the accounts are visited in the opposite order and when the
\* parallel transfers are left out; and each returned cycle gives one ring with
\* its own ring_id.
C7_CanonicalCycles ==
  /\ \A i \in 1..Len(cycles) :
       \A k \in 2..Len(cycles[i]) : LexBefore(cycles[i][1], cycles[i][k])
  /\ \A i, j \in 1..Len(cycles) : i # j => ~IsRotation(cycles[i], cycles[j])
  /\ pc = "filter" =>
       /\ Range(cycles) = Range(FindCycles(AdjList(transactions),
                                           Reverse(AllNodes(transactions)), MIN_LEN, MAX_LEN))
       /\ Range(cycles) = Range(FindCycles(AdjList(SingleEdges(transactions)),
                                           AllNodes(SingleEdges(transactions)),
                                           MIN_LEN, MAX_LEN))
  /\ (pc # "detect" /\ legit = {} /\ hitIdx > Len(cycles)) =>
       LET rings == RingsOfType("cycle")
       IN /\ Len(rings) = Len(cycles)
          /\ \A k \in 1..Len(rings) : rings[k].member_accounts = cycles[k]
          /\ \A k, h \in 1..Len(rings) : k # h => rings[k].ring_id # rings[h].ring_id

\* the search found one cycle twice, along parallel transfers and from an account
\* that is not its smallest; one cycle was returned and one ring was built from it
C7_Witness ==
  /\ pc = "done"
  /\ LET raw == RawCycles(AdjList(transactions), AllNodes(transactions), MIN_LEN, MAX_LEN)
     IN /\ Len(raw) = 2
        /\ raw[1] = raw[2]
        /\ raw[1][1] # cycles[1][1]
  /\ Len(cycles) = 1
  /\ Len(RingsOfType("cycle")) = 1
  /\ result.summary.fraud_rings_detected = 1

\* ---------------------------------------------------------------- smurfing claims
\* the transfers of the batch with the given account on the given side
TransfersOf(acct, side) ==
  {t \in Range(transactions) :
     IF side = "fan_in" THEN t.receiver_id = acct ELSE t.sender_id = acct}

Counterparty(t, side) == IF side = "fan_in" THEN t.sender_id ELSE t.receiver_id

\* the counterparties of the account's transfers timed from `from` up to `to`,
\* `to` itself included or not
Within(acct, side, from, to, closed) ==
  {Counterparty(t, side) :
     t \in {u \in TransfersOf(acct, side) :
              /\ u.timestamp >= from
              /\ IF closed THEN u.timestamp <= to ELSE u.timestamp < to}}

\* some closed interval of 72 hours holds transfers of the account with 10 or more
\* different counterparties; such an interval can be moved to begin or to end at
\* one of the account's transfers
SomeWindow(acct, side) ==
  \E t \in TransfersOf(acct, side) :
    \E from \in {t.timestamp, t.timestamp - 72 * 3600000} :
      Cardinality(Within(acct, side, from, from + 72 * 3600000, TRUE)) >= 10

HitsFor(acct, side) ==
  Len(SelectSeq(smurfing, LAMBDA hit : hit.type = side /\ hit.accounts[1] = acct))

\* C8: once the detector has run, each account has exactly one fan_in hit if some
\* closed 72-hour interval holds transfers to it from 10 or more different senders,
\* and no fan_in hit otherwise; likewise for fan_out and its receivers.
C8_SmurfingThreshold ==
  pc # "detect" =>
    \A side \in {"fan_in", "fan_out"} :
      /\ \A acct \in Range(AllNodes(transactions)) :
           HitsFor(acct, side) = IF SomeWindow(acct, side) THEN 1 ELSE 0
      /\ \A i \in 1..Len(smurfing) :
           smurfing[i].type = side => TransfersOf(smurfing[i].accounts[1], side) # {}

\* a fan_in hit of a receiver and exactly 10 senders whose transfers lie exactly
\* 72 hours apart: no interval that leaves out its end holds 10 senders
C8_Witness ==
  /\ pc = "done"
  /\ \E i \in 1..Len(smurfing) :
       LET acct == smurfing[i].accounts[1]
       IN /\ smurfing[i].type = "fan_in"
          /\ Len(smurfing[i].accounts) = 11
          /\ \E a, b \in TransfersOf(acct, "fan_in") : b.timestamp - a.timestamp = WINDOW_MS
          /\ \A a \in TransfersOf(acct, "fan_in") :
               Cardinality(Within(acct, "fan_in", a.timestamp, a.timestamp + WINDOW_MS, FALSE)) < 10
          /\ \E k \in 1..Len(fraudRings) : fraudRings[k].member_accounts = smurfing[i].accounts

\* ---------------------------------------------------------------- shell claims
\* the number of transfers an account sends plus the number it receives
TotalCount(acct) ==
  Cardinality({i \in 1..Len(transactions) : transactions[i].sender_id = acct})
    + Cardinality({i \in 1..Len(transactions) : transactions[i].receiver_id = acct})

\* C9: every chain the shell detector returns has at least 4 and at most 8 accounts.
C9_ChainLengthBounds ==
  \A i \in 1..Len(shells) : Len(shells[i]) >= 4 /\ Len(shells[i]) <= 8

\* the detector returned a chain of 8 accounts whose last account is a busy one,
\* appended as the one arbitrary successor, while the origin also sends to a quiet
\* account whose chain stopped short and is not returned
C9_Witness ==
  /\ pc = "done"
  /\ \E i \in 1..Len(shells) :
       /\ Len(shells[i]) = 8
       /\ TotalCount(shells[i][8]) > 3
       /\ \E b \in Range(AllNodes(transactions)) :
            /\ Transfer(shells[i][1], b)
            /\ TotalCount(b) <= 3
            /\ \A j \in 1..Len(shells) : ~(shells[j][1] = shells[i][1] /\ shells[j][2] = b)
  /\ RingsOfType("shell_network") # <<>>

\* C10: in every returned chain the first account has more than 3 transfers in and
\* out, every account strictly between the first and the last has at most 3, the
\* accounts are pairwise different, each account sends to the next one, and no two
\* returned chains have the same first and second account.
C10_ChainShape ==
  /\ \A i \in 1..Len(shells) :
       LET chain == shells[i]
       IN /\ TotalCount(chain[1]) > 3
          /\ \A k \in 2..(Len(chain) - 1) : TotalCount(chain[k]) <= 3
          /\ Cardinality(Range(chain)) = Len(chain)
          /\ \A k \in 1..(Len(chain) - 1) : Transfer(chain[k], chain[k + 1])
  /\ \A i, j \in 1..Len(shells) :
       i # j => ~(shells[i][1] = shells[j][1] /\ shells[i][2] = shells[j][2])

\* two chains were returned; one begins with a transfer that occurs twice in the
\* batch, passes an account that also sends to a busy account, and ends at a busy
\* account
C10_Witness ==
  /\ pc = "done"
  /\ Len(shells) >= 2
  /\ \E i \in 1..Len(shells) :
       LET chain == shells[i]
       IN /\ Cardinality({h \in 1..Len(transactions) :
                            /\ transactions[h].sender_id = chain[1]
                            /\ transactions[h].receiver_id = chain[2]}) = 2
          /\ TotalCount(chain[Len(chain)]) > 3
          /\ \E k \in 2..(Len(chain) - 1) :
               \E b \in Range(AllNodes(transactions)) :
                 /\ Transfer(chain[k], b)
                 /\ TotalCount(b) > 3
                 /\ b \notin Range(SubSeq(chain, 1, Len(chain) - 1))

\* ---------------------------------------------------------------- scoring claims
\* the positions in fraudRings of the rings that list the account as a member
RingsWith(id) == {k \in 1..Len(fraudRings) : id \in Range(fraudRings[k].member_accounts)}

InRingOfType(id, type) == \E k \in RingsWith(id) : fraudRings[k].pattern_type = type

\* the score the claim gives an account before the velocity bonus and the cap
ComponentSum(id) ==
    (IF InRingOfType(id, "cycle") THEN 35 ELSE 0)
  + (IF InRingOfType(id, "fan_in") THEN 25 ELSE 0)
  + (IF InRingOfType(id, "fan_out") THEN 25 ELSE 0)
  + (IF InRingOfType(id, "shell_network") THEN 20 ELSE 0)
  + (IF Cardinality(RingsWith(id)) >= 2 THEN 15 ELSE 0)

\* C11: once the accounts are scored, the suspicion_score of every entry is
\* min(100, s) or min(100, s + 15), where s is 35 for membership of a cycle ring,
\* plus 25 for a fan_in ring, 25 for a fan_out ring, 20 for a shell_network ring,
\* and 15 exactly when the account is a member of two or more different rings.
C11_ScoreComposition ==
  pc \in {"graph", "done"} =>
    \A k \in 1..Len(suspiciousAccounts) :
      LET base == ComponentSum(suspiciousAccounts[k].account_id)
      IN suspiciousAccounts[k].suspicion_score \in {Min2(100, base), Min2(100, base + 15)}

\* the positions in the batch of the transfers that touch the account
TouchingAt(id) ==
  {i \in 1..Len(transactions) :
     transactions[i].sender_id = id \/ transactions[i].receiver_id = id}

\* more than 5 of the account's transfers lie within some span of less than 24
\* hours; such a span can be taken to begin at one of the transfers
BusyDay(id) ==
  \E i \in TouchingAt(id) :
    Cardinality({j \in TouchingAt(id) :
                   /\ transactions[j].timestamp >= transactions[i].timestamp
                   /\ transactions[j].timestamp < transactions[i].timestamp + 24 * 3600000}) > 5

\* C12: once the accounts are scored, an entry carries the high_velocity tag and
\* the +15 bonus if more than 5 of the account's transfers lie within a 24-hour
\* span, whatever other transfers the account has, and neither of them otherwise.
C12_VelocityWindow ==
  pc \in {"graph", "done"} =>
    \A k \in 1..Len(suspiciousAccounts) :
      LET entry == suspiciousAccounts[k]
          id    == entry.account_id
          tags  == SelectSeq(entry.detected_patterns, LAMBDA tag : tag # <<"high_velocity">>)
      IN /\ <<"high_velocity">> \in Range(entry.detected_patterns) <=> BusyDay(id)
         /\ entry.suspicion_score =
              Min2(100, PatternScore(tags, MapGet(acctRings, id))
                          + (IF BusyDay(id) THEN 15 ELSE 0))

\* the smallest element of a non-empty set of positions
First(S) == CHOOSE k \in S : \A h \in S : k <= h

\* C13: the returned suspicious_accounts has exactly one entry for each account
\* that some ring lists as a member and none for any other account, and the
\* ring_id of an entry is the id of the first ring that lists the account.
C13_OneEntryPerMember ==
  result.ready =>
    LET sa == result.suspicious_accounts
    IN /\ {sa[k].account_id : k \in 1..Len(sa)}
            = {id \in Range(AllNodes(transactions)) : RingsWith(id) # {}}
       /\ \A j, k \in 1..Len(sa) : j # k => sa[j].account_id # sa[k].account_id
       /\ \A k \in 1..Len(sa) :
            sa[k].ring_id = result.fraud_rings[First(RingsWith(sa[k].account_id))].ring_id

\* a result in which some account of two rings is recorded with its first ring
\* although its other ring has the higher risk_score, and in which some account
\* of the batch is in no ring and has no entry
C13_Witness ==
  /\ result.ready
  /\ \E k \in 1..Len(result.suspicious_accounts) :
       LET rings == RingsWith(result.suspicious_accounts[k].account_id)
       IN \E h \in rings :
            fraudRings[h].risk_score > fraudRings[First(rings)].risk_score
  /\ \E id \in Range(AllNodes(transactions)) : RingsWith(id) = {}

\* account a joined a ring before account b did: a's first ring comes first, or
\* it is the same ring and a is listed earlier in it
JoinedBefore(a, b) ==
  LET ra == First(RingsWith(a))
      rb == First(RingsWith(b))
      Pos(id, r) == First({i \in 1..Len(fraudRings[r].member_accounts) :
                             fraudRings[r].member_accounts[i] = id})
  IN ra < rb \/ (ra = rb /\ Pos(a, ra) < Pos(b, rb))

\* C14: in the returned suspicious_accounts an earlier entry never has a lower
\* suspicion_score than a later one, and of two entries with equal scores the
\* one whose account joined a ring first comes first.
C14_SortedByScore ==
  result.ready =>
    LET sa == result.suspicious_accounts
    IN \A j, k \in 1..Len(sa) :
         j < k =>
           /\ sa[j].suspicion_score >= sa[k].suspicion_score
           /\ sa[j].suspicion_score = sa[k].suspicion_score
                => JoinedBefore(sa[j].account_id, sa[k].account_id)

\* a result in which the sort moved an entry ahead of one whose account joined a
\* ring earlier, and in which two entries have equal scores
C14_Witness ==
  /\ result.ready
  /\ LET sa == result.suspicious_accounts
     IN /\ \E j, k \in 1..Len(sa) :
             j < k /\ JoinedBefore(sa[k].account_id, sa[j].account_id)
        /\ \E j, k \in 1..Len(sa) :
             j < k /\ sa[j].suspicion_score = sa[k].suspicion_score

\* ---------------------------------------------------------------- payroll claims
\* the account sends 10 or more transfers and every one of them has amount 0
ZeroMean(id) ==
  LET sent == {i \in 1..Len(transactions) : transactions[i].sender_id = id}
  IN Cardinality(sent) >= 10 /\ \A i \in sent : transactions[i].amount = 0

\* C15: an account whose 10 or more outgoing transfers all have amount 0 is never
\* in the excluded set, and the ring of the fan_out hit it anchors lists it.
C15_ZeroMeanNotPayroll ==
  \A id \in Range(AllNodes(transactions)) :
    ZeroMean(id) =>
      /\ id \notin legit
      /\ result.ready =>
           \A i \in 1..Len(smurfing) :
             (smurfing[i].type = "fan_out" /\ smurfing[i].accounts[1] = id) =>
               \E k \in 1..Len(result.fraud_rings) :
                 /\ result.fraud_rings[k].pattern_type = "fan_out"
                 /\ result.fraud_rings[k].member_accounts[1] = id

\* the filters ran on a batch whose payer sends only amounts of 0, the payer was
\* not excluded, and the result has the payer's fan_out ring and an entry for it
C15_Witness ==
  /\ result.ready
  /\ \E id \in Range(AllNodes(transactions)) :
       /\ ZeroMean(id)
       /\ \E k \in 1..Len(result.fraud_rings) :
            /\ result.fraud_rings[k].pattern_type = "fan_out"
            /\ result.fraud_rings[k].member_accounts[1] = id
       /\ \E k \in 1..Len(result.suspicious_accounts) :
            result.suspicious_accounts[k].account_id = id

\* ---------------------------------------------------------------- end-to-end claims
\* C16: for the empty batch no detector reports a hit, no account is excluded, and
\* the returned result has empty suspicious_accounts, fraud_rings, graph.nodes and
\* graph.edges and the counters 0 for accounts analyzed, accounts flagged and rings.
C16_EmptyBatch ==
  transactions = <<>> =>
    /\ cycles = <<>> /\ smurfing = <<>> /\ shells = <<>> /\ legit = {}
    /\ ringCounter = 0
    /\ result.ready =>
         /\ result.suspicious_accounts = <<>>
         /\ result.fraud_rings = <<>>
         /\ result.graph.nodes = <<>>
         /\ result.graph.edges = <<>>
         /\ result.summary.total_accounts_analyzed = 0
         /\ result.summary.suspicious_accounts_flagged = 0
         /\ result.summary.fraud_rings_detected = 0

\* the analysis of the empty batch has returned its result
C16_Witness == transactions = <<>> /\ pc = "done" /\ result.ready

\* the account reached from id after k transfers, in a batch where every account
\* sends exactly one transfer
RECURSIVE After(_, _)
After(id, k) ==
  IF k = 0 THEN id
  ELSE LET prev == After(id, k - 1)
       IN transactions[CHOOSE i \in 1..Len(transactions) :
                         transactions[i].sender_id = prev].receiver_id

\* the batch is one simple directed cycle over n accounts and nothing else: n
\* transfers of amount 100 one hour apart, every account sends once and receives
\* once, and n transfers lead from the first sender through all accounts and back
SingleCycle(n) ==
  LET accts == Range(AllNodes(transactions))
  IN /\ Len(transactions) = n
     /\ Cardinality(accts) = n
     /\ \A i \in 1..n : /\ transactions[i].amount = 100
                        /\ transactions[i].timestamp = i * 3600000
     /\ \A a \in accts :
          /\ Cardinality({i \in 1..n : transactions[i].sender_id = a}) = 1
          /\ Cardinality({i \in 1..n : transactions[i].receiver_id = a}) = 1
     /\ {After(transactions[1].sender_id, k) : k \in 1..n} = accts

\* C17: for a batch that is one simple directed cycle over N accounts, N = 3, 4 or
\* 5, the result has exactly one ring, of type cycle, with the N accounts as
\* members and risk_score min(100, 75 + 3N + 2N); every account has an entry in
\* suspicious_accounts with the tag cycle_length_N and a score of 35 or more; and
\* the summary counts N accounts and 1 ring.
C17_SingleCycleScenario ==
  \A n \in 3..5 :
    (result.ready /\ SingleCycle(n)) =>
      /\ Len(result.fraud_rings) = 1
      /\ result.fraud_rings[1].pattern_type = "cycle"
      /\ Len(result.fraud_rings[1].member_accounts) = n
      /\ Range(result.fraud_rings[1].member_accounts) = Range(AllNodes(transactions))
      /\ result.fraud_rings[1].risk_score = Min2(100, 75 + 3 * n + 2 * n)
      /\ n = 3 => result.fraud_rings[1].risk_score = 90
      /\ \A a \in Range(AllNodes(transactions)) :
           \E k \in 1..Len(result.suspicious_accounts) :
             /\ result.suspicious_accounts[k].account_id = a
             /\ <<"cycle_length_", n>> \in Range(result.suspicious_accounts[k].detected_patterns)
             /\ result.suspicious_accounts[k].suspicion_score >= 35
      /\ result.summary.total_accounts_analyzed = n
      /\ result.summary.fraud_rings_detected = 1

\* the result for a batch that is one cycle over 5 accounts, entered at an account
\* that is not its lexicographically smallest
C17_Witness ==
  /\ result.ready
  /\ SingleCycle(5)
  /\ Len(result.fraud_rings) = 1
  /\ result.fraud_rings[1].member_accounts[1] # transactions[1].sender_id

\* ---------------------------------------------------------------- termination
\* what the three detectors return for the batch
ReturnedByDetectors ==
  /\ cycles = FindCycles(AdjList(transactions), AllNodes(transactions), MIN_LEN, MAX_LEN)
  /\ smurfing = DetectSmurfing(transactions)
  /\ shells = DetectShellNetworks(AdjList(transactions), NodeStats(transactions),
                                  AllNodes(transactions))

Repeats(s) == \E i, j \in 1..Len(s) : i < j /\ s[i] = s[j]

\* C19: no ring lists an account twice in member_accounts, and no account's
\* ring_ids (in acctRings, and in the graph nodes of the result) lists a ring id
\* twice, self-transfers included.
C19_NoRepeatedMembers ==
  /\ \A r \in 1..Len(fraudRings) : ~Repeats(fraudRings[r].member_accounts)
  /\ \A a \in 1..Len(acctRings) : ~Repeats(acctRings[a].val)
  /\ pc = "done" =>
        \A n \in 1..Len(result.graph.nodes) : ~Repeats(result.graph.nodes[n].ring_ids)

\* -------------------------------------------------------------------------- C20
AccountsOf(txs) == {txs[i].sender_id : i \in 1..Len(txs)} \cup {txs[i].receiver_id : i \in 1..Len(txs)}

\* the paths of n different accounts of the batch, each sending to the next
RECURSIVE SimplePaths(_)
SimplePaths(n) ==
  IF n = 1 THEN {<<a>> : a \in AccountsOf(transactions)}
  ELSE UNION {{Append(p, b) : b \in {x \in AccountsOf(transactions) \ Range(p) :
                                       Transfer(p[n - 1], x)}}
                : p \in SimplePaths(n - 1)}

\* the simple directed cycles of 3 to 5 accounts, every rotation of each
SimpleCycles ==
  UNION {{p \in SimplePaths(n) : Transfer(p[n], p[1])} : n \in MIN_LEN..MAX_LEN}

\* C20: every sequence the cycle detector returns is a simple directed cycle of 3
\* to 5 accounts of the batch, and every such cycle of the batch has exactly one
\* entry in the output that is a rotation of it.
C20_CyclesSoundAndComplete ==
  pc # "detect" =>
    /\ \A k \in 1..Len(cycles) : cycles[k] \in SimpleCycles
    /\ \A p \in SimpleCycles :
         Cardinality({k \in 1..Len(cycles) : IsRotation(cycles[k], p)}) = 1

=============================================================================
